---- MODULE Spec2Model ----
(***************************************************************************)
(* A model of the mwa_utils package: UVDataFileSet (configurators.py),     *)
(* the batch planners (utils.py, processors.py) and FITSProcessor.read     *)
(* (processors.py).                                                        *)
(*                                                                         *)
(* A file name is a sequence of tokens: the separators "/", "." and "_"    *)
(* and words that contain none of them.  pathlib's parsing (Path(file),    *)
(* .name, .suffix, .stem) and str.split('_') are computed on the tokens.   *)
(***************************************************************************)
EXTENDS Integers, Sequences, FiniteSets, TLC

VARIABLES
    phase,          \* where the caller is: "start", "constructed", ...
    files,          \* UVDataFileSet.files
    sel_ants,       \* UVDataFileSet.sel_ants
    skip_ants,      \* UVDataFileSet.skip_ants
    file_groups,    \* UVDataFileSet.file_groups: [order, val]
    obsid_groups,   \* UVDataFileSet.obsid_groups: [set, order, val]
    errors,         \* the list validate() returned in __post_init__
    disk,           \* the filesystem: what stat() finds for each file name
    host_mem,       \* psutil.virtual_memory().total
    plan_call,      \* the planner call made: function and arguments
    plan_result,    \* what the planner call returned or raised
    acc,            \* uvd, the accumulator: [has_data, times]
    acc0,           \* the accumulator as it was handed to read()
    step_arg,       \* read()'s step_size argument: 'dynamic' or a number
    step_size,      \* the step size in use
    obs_idx,        \* position of the observations() generator
    cur,            \* the observation in hand: [obsid, metafits, fits, times]
    possible_times, \* np.unique(...) of the discovery pass
    loop_i,         \* the slice loop's index i
    discoveries,    \* the metadata-only reads issued so far
    reads,          \* the slice reads issued so far
    read_exc        \* the exception read() ended with, "" for none

fileVars == <<files, sel_ants, skip_ants, file_groups, obsid_groups, errors>>
envVars  == <<disk, host_mem>>
planVars == <<plan_call, plan_result>>

readVars == <<acc, acc0, step_arg, step_size, obs_idx, cur, possible_times, loop_i,
              discoveries, reads, read_exc>>

vars == <<phase, fileVars, envVars, planVars, readVars>>

---------------------------------------------------------------------------
(* Bounds *)

\* longest file list handed to UVDataFileSet
MaxFiles == 3

\* largest size_in_gb, leakage_factor and memory ceiling handed to the planners
MaxSizeGb == 10
MaxLeakage == 7
MaxMemGb == 10

\* the timestamps are 1..MaxTime; the largest explicit step size
MaxTime == 3
MaxStep == 2

---------------------------------------------------------------------------
(* Sequences and python dicts *)

Range(s) == {s[i] : i \in 1..Len(s)}

RECURSIVE SeqsUpTo(_, _)
\* all sequences over S of length at most n
SeqsUpTo(S, n) ==
    IF n = 0 THEN {<<>>}
    ELSE LET shorter == SeqsUpTo(S, n - 1)
         IN  shorter \cup {Append(s, x) : s \in {t \in shorter : Len(t) = n - 1}, x \in S}

\* s[a:b] of python, 0-based, clipped at the ends
Slice(s, a, b) ==
    LET hi == IF b < Len(s) THEN b ELSE Len(s)
    IN  IF a >= hi THEN <<>> ELSE SubSeq(s, a + 1, hi)

\* a python dict keeps its keys in insertion order
EmptyDict == [order |-> <<>>, val |-> <<>>]

HasKey(d, k) == k \in Range(d.order)

Get(d, k) == d.val[CHOOSE i \in 1..Len(d.order) : d.order[i] = k]

\* d[k] = v
Put(d, k, v) ==
    IF HasKey(d, k)
    THEN [d EXCEPT !.val = [i \in 1..Len(d.order) |-> IF d.order[i] = k THEN v ELSE d.val[i]]]
    ELSE [order |-> Append(d.order, k), val |-> Append(d.val, v)]

---------------------------------------------------------------------------
(* pathlib: Path(file), .name, .suffix, .stem; sorted() of Path lists *)

\* the tokens file names are made of, in the order python compares strings
TokenOrder ==
    <<".", "/", "1090", "1091", "README", "_", "ch1", "ch2", "d", "fits",
      "metafits", "ms", "notes", "txt", "uvf", "uvfits", "uvh5", "v", "x">>

\* the position of each token in that order
TokenRanks ==
    [t \in {TokenOrder[i] : i \in 1..Len(TokenOrder)} |->
        CHOOSE i \in 1..Len(TokenOrder) : TokenOrder[i] = t]

TokenRank(t) == TokenRanks[t]

RECURSIVE SplitOn(_, _)
\* str.split(sep): the pieces between the separators, empty pieces included
SplitOn(s, sep) ==
    IF \A i \in 1..Len(s) : s[i] # sep THEN <<s>>
    ELSE LET i == CHOOSE j \in 1..Len(s) :
                      s[j] = sep /\ \A k \in 1..(j - 1) : s[k] # sep
         IN  <<SubSeq(s, 1, i - 1)>> \o SplitOn(SubSeq(s, i + 1, Len(s)), sep)

\* Path(file): the components between "/", without the empty and "." ones
PathOf(file) ==
    LET comps == SplitOn(file, "/")
    IN  [abs   |-> Len(file) > 0 /\ file[1] = "/",
         parts |-> SelectSeq(comps, LAMBDA c : c # <<>> /\ c # <<".">>)]

\* Path.name: the final component, '' when there is none
PathName(p) == IF Len(p.parts) = 0 THEN <<>> ELSE p.parts[Len(p.parts)]

\* name.rfind('.'), 0-based, -1 when there is no dot
RFindDot(name) ==
    IF \A i \in 1..Len(name) : name[i] # "." THEN -1
    ELSE (CHOOSE i \in 1..Len(name) :
              name[i] = "." /\ \A k \in (i + 1)..Len(name) : name[k] # ".") - 1

\* Path.suffix: the last dot and what follows it, unless the dot is first or last
PathSuffix(p) ==
    LET name == PathName(p)
        i    == RFindDot(name)
    IN  IF 0 < i /\ i < Len(name) - 1 THEN Slice(name, i, Len(name)) ELSE <<>>

\* Path.stem: the name without its suffix
PathStem(p) ==
    LET name == PathName(p)
        i    == RFindDot(name)
    IN  IF 0 < i /\ i < Len(name) - 1 THEN Slice(name, 0, i) ELSE name

\* Path(file).suffix[1:]
ExtOf(file) ==
    LET suffix == PathSuffix(PathOf(file))
    IN  Slice(suffix, 1, Len(suffix))

\* Path(file).stem.split('_')[0]
ObsidOf(file) == SplitOn(PathStem(PathOf(file)), "_")[1]

TokenLt(x, y) == TokenRank(x) < TokenRank(y)

RECURSIVE StrLt(_, _)
\* a < b for two strings
StrLt(a, b) ==
    IF Len(b) = 0 THEN FALSE
    ELSE IF Len(a) = 0 THEN TRUE
    ELSE IF TokenLt(a[1], b[1]) THEN TRUE
    ELSE IF TokenLt(b[1], a[1]) THEN FALSE
    ELSE StrLt(Tail(a), Tail(b))

RECURSIVE PartsLt(_, _)
\* a < b for two tuples of strings
PartsLt(a, b) ==
    IF Len(b) = 0 THEN FALSE
    ELSE IF Len(a) = 0 THEN TRUE
    ELSE IF StrLt(a[1], b[1]) THEN TRUE
    ELSE IF StrLt(b[1], a[1]) THEN FALSE
    ELSE PartsLt(Tail(a), Tail(b))

\* Path.parts: an absolute path's parts start with the root
PathParts(p) == IF p.abs THEN <<<<"/">>>> \o p.parts ELSE p.parts

\* Path.__lt__
PathLt(p, q) == PartsLt(PathParts(p), PathParts(q))

RECURSIVE InsertSorted(_, _)
InsertSorted(s, p) ==
    IF Len(s) = 0 THEN <<p>>
    ELSE IF PathLt(p, s[1]) THEN <<p>> \o s
    ELSE <<s[1]>> \o InsertSorted(Tail(s), p)

RECURSIVE Sorted(_)
\* sorted(paths): stable, equal paths stay in the order given
Sorted(s) ==
    IF Len(s) = 0 THEN <<>>
    ELSE InsertSorted(Sorted(SubSeq(s, 1, Len(s) - 1)), s[Len(s)])

---------------------------------------------------------------------------
(* UVDataFileSet (configurators.py) *)

\* UVDataFileSet.supported_types
supported_types ==
    {<<"fits">>, <<"metafits">>, <<"ms">>, <<"uvfits">>, <<"uvf">>, <<"uvh5">>}

\* the messages validate() appends, in the order of its checks
MsgNoSupported   == "No supported file types found."
MsgNeedMetafits  == "FITS files require metafits files to be present."
MsgObsidMetafits == "Metafits files are missing for some obsids."
MsgUnsupported   == "Unsupported file types found"
MsgUvfitsUvh5    == "Cannot use both uvfits and uvh5 files."
MsgMsUvfitsUvh5  == "Cannot use both ms and uvfits/uvh5 files."
MsgSelSkip       == "Cannot specify both sel_ants and skip_ants."
MsgFailedFor     == "Validation failed for"

\* file_groups[ext] = [path]: the bucket is replaced, not appended to
AppendToOverwrite(d, k, v) == Put(d, k, <<v>>)

\* file_groups[ext].append(path) on a defaultdict(list)
AppendTo(d, k, v) == Put(d, k, IF HasKey(d, k) THEN Append(Get(d, k), v) ELSE <<v>>)

\* {k: sorted(v) for k, v in d.items()}
SortValues(d) == [order |-> d.order, val |-> [i \in 1..Len(d.val) |-> Sorted(d.val[i])]]

RECURSIVE GroupByExt(_, _)
\* the loop of group_files_by_extension over file_list, from the groups so far
GroupByExt(file_list, groups) ==
    IF Len(file_list) = 0 THEN groups
    ELSE GroupByExt(Tail(file_list),
                    AppendTo(groups, ExtOf(file_list[1]), PathOf(file_list[1])))

group_files_by_extension(file_list) == SortValues(GroupByExt(file_list, EmptyDict))

RECURSIVE GroupByObsid(_, _)
\* the loop of group_files_by_obsid_and_extension
GroupByObsid(file_list, groups) ==
    IF Len(file_list) = 0 THEN groups
    ELSE LET obsid == ObsidOf(file_list[1])
             inner == IF HasKey(groups, obsid) THEN Get(groups, obsid) ELSE EmptyDict
         IN  GroupByObsid(Tail(file_list),
                          Put(groups, obsid,
                              AppendTo(inner, ExtOf(file_list[1]), PathOf(file_list[1]))))

group_files_by_obsid_and_extension(file_list) ==
    LET g == GroupByObsid(file_list, EmptyDict)
    IN  [order |-> g.order, val |-> [i \in 1..Len(g.val) |-> SortValues(g.val[i])]]

\* obsid_groups before __post_init__ assigns it (the field has no default)
NotSet == [set |-> FALSE, order |-> <<>>, val |-> <<>>]

AsSet(d) == [set |-> TRUE, order |-> d.order, val |-> d.val]

\* has_<file_type>: file_type in self.file_groups
has_type(fg, file_type) == HasKey(fg, file_type)

_has_metafits_for_obs_id(og) ==
    \A i \in 1..Len(og.val) :
        ~(~HasKey(og.val[i], <<"metafits">>) \/ Len(og.val[i].order) = 0)

\* validate(), first check: some supported type is present
check_supported(fg) ==
    IF ~(\E ext \in supported_types : has_type(fg, ext)) THEN <<MsgNoSupported>> ELSE <<>>

\* a metadata check that only looks at the observation groups
check_metafits_obsid_only(fg, og) ==
    IF has_type(fg, <<"fits">>) /\ og.set /\ ~_has_metafits_for_obs_id(og)
    THEN <<MsgObsidMetafits>> ELSE <<>>

\* validate(), the if/elif on metafits: fits need metafits, and one per obsid
check_metafits(fg, og) ==
    IF has_type(fg, <<"fits">>) /\ ~has_type(fg, <<"metafits">>)
    THEN <<MsgNeedMetafits>>
    ELSE IF has_type(fg, <<"fits">>) /\ og.set /\ ~_has_metafits_for_obs_id(og)
    THEN <<MsgObsidMetafits>>
    ELSE <<>>

\* validate(): type tags outside supported_types
check_unsupported(fg) ==
    IF (Range(fg.order) \ supported_types) # {} THEN <<MsgUnsupported>> ELSE <<>>

\* validate(): uvfits against uvh5
check_uvfits_uvh5(fg) ==
    IF has_type(fg, <<"uvfits">>) /\ has_type(fg, <<"uvh5">>)
    THEN <<MsgUvfitsUvh5>> ELSE <<>>

\* validate(): ms against uvh5 and uvfits
check_ms(fg) ==
    IF has_type(fg, <<"ms">>) /\ (has_type(fg, <<"uvh5">>) \/ has_type(fg, <<"uvfits">>))
    THEN <<MsgMsUvfitsUvh5>> ELSE <<>>

\* a selection check that fires only when the exclude list is empty
check_ants_sel_only(sel, skip) ==
    IF Len(sel) > 0 /\ ~(Len(skip) > 0) THEN <<MsgSelSkip>> ELSE <<>>

\* validate(): sel_ants against skip_ants
check_ants(sel, skip) ==
    IF Len(sel) > 0 /\ Len(skip) > 0 THEN <<MsgSelSkip>> ELSE <<>>

\* validate(): the list of messages it returns
validate(fg, og, sel, skip) ==
    LET es == check_supported(fg) \o check_metafits(fg, og) \o check_unsupported(fg)
              \o check_uvfits_uvh5(fg) \o check_ms(fg) \o check_ants(sel, skip)
    IN  IF Len(es) > 0 THEN Append(es, MsgFailedFor) ELSE es

---------------------------------------------------------------------------
(* The file names and option values the file-set is built from *)

F_A1   == <<"1090", "_", "ch1", ".", "fits">>
F_A2   == <<"1090", "_", "ch2", ".", "fits">>
F_B1   == <<"d", "/", "1091", "_", "ch1", ".", "fits">>
M_A    == <<"1090", ".", "metafits">>
M_B    == <<"d", "/", "/", "1091", ".", "metafits">>
UVFITS == <<"x", ".", "uvfits">>
UVF    == <<"x", ".", "uvf">>
UVH5   == <<".", "/", "x", ".", "uvh5">>
MS     == <<"x", ".", "ms">>
TXT    == <<"notes", ".", "txt">>
NOEXT  == <<"README">>
HIDDEN == <<"d", ".", "v", "/", ".", "fits">>

FileNames == {F_A1, F_A2, F_B1, M_A, M_B, UVFITS, UVF, UVH5, MS, TXT, NOEXT, HIDDEN}

AntLists == {<<>>, <<"ant1">>}

---------------------------------------------------------------------------
(* Sizes: disk_usage_in_blocks, get_size_mb, the host memory probe *)

\* A byte count is held as [mib, rem], standing for mib * 2^20 + rem bytes
\* with 0 <= rem < 2^20, so that sizes of many GiB keep their value.
MiB == 1048576
MbPerGb == 1024
DefaultLeakage == 7

Bytes(m, r) == [mib |-> m, rem |-> r]

RECURSIVE SumMib(_)
SumMib(sizes) == IF Len(sizes) = 0 THEN 0 ELSE sizes[1].mib + SumMib(Tail(sizes))

RECURSIVE SumRem(_)
SumRem(sizes) == IF Len(sizes) = 0 THEN 0 ELSE sizes[1].rem + SumRem(Tail(sizes))

\* disk_usage_in_blocks(path) with block_size = 1024*1024: a file's
\* st_size // block_size, a directory's summed st_size // block_size
disk_usage_in_blocks(entry) ==
    IF entry.is_file
    THEN entry.sizes[1].mib + (entry.sizes[1].rem \div MiB)
    ELSE SumMib(entry.sizes) + (SumRem(entry.sizes) \div MiB)

RECURSIVE get_size_mb(_, _)
\* sum(disk_usage_in_blocks(Path(file)) for file in self.files)
get_size_mb(fls, dsk) ==
    IF Len(fls) = 0 THEN 0
    ELSE disk_usage_in_blocks(dsk[fls[1]]) + get_size_mb(Tail(fls), dsk)

\* mem.total // (1024 ** 3), computed as (total // 2^20) // 2^10
_obtain_system_memory_in_gb(total) == total.mib \div MbPerGb

RegularFile(m, r) == [is_file |-> TRUE, sizes |-> <<Bytes(m, r)>>]
Directory(szs)    == [is_file |-> FALSE, sizes |-> szs]

HalfMiB == MiB \div 2

\* the filesystems the file names are looked up in
FsBig ==
    [f \in FileNames |->
        IF ExtOf(f) = <<"fits">> THEN RegularFile(5 * MbPerGb, 0)
        ELSE IF ExtOf(f) = <<"ms">> THEN Directory(<<Bytes(MbPerGb, 0), Bytes(0, HalfMiB)>>)
        ELSE RegularFile(0, HalfMiB)]

FsMid ==
    [f \in FileNames |->
        IF ExtOf(f) = <<"fits">> THEN RegularFile(MbPerGb, HalfMiB)
        ELSE IF ExtOf(f) = <<"ms">> THEN Directory(<<Bytes(0, HalfMiB), Bytes(0, HalfMiB)>>)
        ELSE RegularFile(MbPerGb \div 2, 0)]

FsSmall ==
    [f \in FileNames |->
        IF ExtOf(f) = <<"ms">> THEN Directory(<<>>) ELSE RegularFile(0, HalfMiB)]

\* disk names the filesystem in use
Filesystems == {"big", "mid", "small"}

Filesystem(name) == IF name = "big" THEN FsBig ELSE IF name = "mid" THEN FsMid ELSE FsSmall

\* psutil's mem.total: 4 GiB less a reserved MiB, 8 GiB, 64 GiB
HostMemories == {Bytes(4 * MbPerGb - 1, 0), Bytes(8 * MbPerGb, HalfMiB), Bytes(64 * MbPerGb, 0)}

---------------------------------------------------------------------------
(* The batch planners *)

\* an optional argument: None, or a value
NoneArg   == [some |-> FALSE, v |-> 0]
Given(x)  == [some |-> TRUE, v |-> x]

Return(x) == [kind |-> "return", value |-> x]
Raise(e)  == [kind |-> "raise", value |-> e]
NoResult  == [kind |-> "none", value |-> ""]
NoCall    == [fn |-> "none"]

\* the batch count with <= for <: a peak equal to the ceiling counts as under it
batches_for_leq(predicted_max_memory_gb, avail_mem_gb) ==
    IF predicted_max_memory_gb <= avail_mem_gb THEN Return(1)
    ELSE IF avail_mem_gb = 0 THEN Raise("ZeroDivisionError")
    ELSE Return((predicted_max_memory_gb \div avail_mem_gb) * 2)

\* 1 under the ceiling, else (predicted // ceiling) * 2
batches_for(predicted_max_memory_gb, avail_mem_gb) ==
    IF predicted_max_memory_gb < avail_mem_gb THEN Return(1)
    ELSE IF avail_mem_gb = 0 THEN Raise("ZeroDivisionError")
    ELSE Return((predicted_max_memory_gb \div avail_mem_gb) * 2)

\* utils.compute_optimal_batches(size_in_gb, leakage_factor, avail_mem_gb);
\* with avail_mem_gb None it names self, which a module function does not have
compute_optimal_batches(size_in_gb, leakage_factor, avail_mem_gb) ==
    IF ~(size_in_gb > 0) THEN Raise("AssertionError")
    ELSE IF ~avail_mem_gb.some THEN Raise("NameError")
    ELSE batches_for(size_in_gb * leakage_factor, avail_mem_gb.v)

\* FITSProcessor._optimize_step_size(files, leakage_factor, max_memory_gb),
\* size_mb being files.get_size_mb() and total the host's mem.total
_optimize_step_size(size_mb, leakage_factor, max_memory_gb, total) ==
    LET mem       == IF max_memory_gb.some THEN max_memory_gb.v
                     ELSE _obtain_system_memory_in_gb(total)
        file_size == size_mb \div MbPerGb
    IN  IF ~(file_size > 0) THEN Raise("AssertionError")
        ELSE batches_for(file_size * leakage_factor, mem)

---------------------------------------------------------------------------
(* The accumulator and the reader FITSProcessor.read drives *)

Times == 1..MaxTime

\* np.unique(None) is array([None], dtype=object): the one element found on
\* the axis of a UVData() that holds no data; no timestamp equals it
NoneT == 0

\* UVData(): no time_array yet
EmptyAcc == [has_data |-> FALSE, times |-> {}]

AccOf(T) == [has_data |-> TRUE, times |-> T]

RECURSIVE SortedTimes(_)
\* the elements of a set of timestamps in ascending order
SortedTimes(T) ==
    IF T = {} THEN <<>>
    ELSE LET m == CHOOSE x \in T : \A y \in T : x <= y
         IN  <<m>> \o SortedTimes(T \ {m})

\* np.unique(uvd.time_array)
unique_times(uvd) == IF uvd.has_data THEN SortedTimes(uvd.times) ELSE <<NoneT>>

\* the timestamps a slice read of an observation returns: those asked for
\* that the observation has
fragment(times, obs_times) == Range(times) \cap obs_times

\* uvd += fragment
merge(uvd, frag) ==
    [has_data |-> uvd.has_data \/ frag # {}, times |-> uvd.times \cup frag]

\* uvd with the accumulator emptied where the slice read raised
iadd_from_file_reset(uvd, ok, times, obs_times) ==
    IF ok THEN merge(uvd, fragment(times, obs_times)) ELSE EmptyAcc

\* uvd += type(uvd).from_file(..., times=times): the right-hand side is
\* evaluated first, and when from_file raises nothing is merged or assigned
iadd_from_file(uvd, ok, times, obs_times) ==
    IF ok THEN merge(uvd, fragment(times, obs_times)) ELSE uvd

\* read()'s step_size argument
Dynamic  == [dynamic |-> TRUE, n |-> 0]
Step(n)  == [dynamic |-> FALSE, n |-> n]

NoObservation == [obsid |-> <<>>, metafits |-> <<>>, fits |-> <<>>, times |-> {}]

InitRead ==
    /\ acc = EmptyAcc
    /\ acc0 = EmptyAcc
    /\ step_arg = Step(0)
    /\ step_size = 0
    /\ obs_idx = 0
    /\ cur = NoObservation
    /\ possible_times = <<>>
    /\ loop_i = 0
    /\ discoveries = <<>>
    /\ reads = <<>>
    /\ read_exc = ""

---------------------------------------------------------------------------
(* Construction of a file-set, and direct calls of the planners *)

InitFiles ==
    /\ files = <<>>
    /\ sel_ants = <<>>
    /\ skip_ants = <<>>
    /\ file_groups = EmptyDict
    /\ obsid_groups = NotSet
    /\ errors = <<>>

InitPlan ==
    /\ plan_call = NoCall
    /\ plan_result = NoResult

Init ==
    /\ phase = "start"
    /\ InitFiles
    /\ InitPlan
    /\ InitRead
    /\ disk = "mid"
    /\ host_mem = Bytes(8 * MbPerGb, HalfMiB)

\* UVDataFileSet(files=fls, sel_ants=sel, skip_ants=skip): __post_init__.
\* It raises on an empty list and on a non-empty validate() report; the
\* suffix it derives afterwards is read by nothing modelled here.
Construct(fls, sel, skip) ==
    /\ phase = "start"
    /\ files' = fls
    /\ sel_ants' = sel
    /\ skip_ants' = skip
    /\ IF Len(fls) = 0
       THEN /\ phase' = "no_input_files"
            /\ UNCHANGED <<file_groups, obsid_groups, errors>>
       ELSE LET fg == group_files_by_extension(fls)
                og == IF has_type(fg, <<"fits">>)
                      THEN AsSet(group_files_by_obsid_and_extension(fls))
                      ELSE NotSet
                es == validate(fg, og, sel, skip)
            IN  /\ file_groups' = fg
                /\ obsid_groups' = og
                /\ errors' = es
                /\ phase' = IF Len(es) > 0 THEN "validation_errors" ELSE "constructed"
    /\ UNCHANGED <<envVars, planVars, readVars>>

\* UVDataFileSet.group_files_by_extension(fls), called on the class
Classify(fls) ==
    /\ phase = "start"
    /\ phase' = "classified"
    /\ files' = fls
    /\ file_groups' = group_files_by_extension(fls)
    /\ UNCHANGED <<sel_ants, skip_ants, obsid_groups, errors, envVars, planVars, readVars>>

\* a call of compute_optimal_batches
ComputeOptimalBatches(size_in_gb, leakage_factor, avail_mem_gb) ==
    /\ phase = "start"
    /\ phase' = "planned"
    /\ plan_call' = [fn |-> "compute_optimal_batches", size_gb |-> size_in_gb,
                     leakage |-> leakage_factor, ceiling |-> avail_mem_gb]
    /\ plan_result' = compute_optimal_batches(size_in_gb, leakage_factor, avail_mem_gb)
    /\ UNCHANGED <<fileVars, envVars, readVars>>

\* a call of FITSProcessor()._optimize_step_size on the constructed file-set
OptimizeStepSize(leakage_factor, max_memory_gb) ==
    /\ phase = "constructed"
    /\ phase' = "planned"
    /\ plan_call' = [fn |-> "_optimize_step_size",
                     size_gb |-> get_size_mb(files, Filesystem(disk)) \div MbPerGb,
                     leakage |-> leakage_factor, ceiling |-> max_memory_gb]
    /\ plan_result' = _optimize_step_size(get_size_mb(files, Filesystem(disk)), leakage_factor,
                                          max_memory_gb, host_mem)
    /\ UNCHANGED <<fileVars, envVars, readVars>>

\* the file lists a file-set is built from
FileLists == SeqsUpTo(FileNames, MaxFiles)

Next ==
    \/ /\ phase = "start"
       /\ \E fls \in FileLists, sel \in AntLists, skip \in AntLists :
              Construct(fls, sel, skip)
    \/ /\ phase = "start"
       /\ \E fls \in FileLists : Classify(fls)

Spec == Init /\ [][Next]_vars

\* the ceilings a caller passes: None, or a number of GB
Ceilings == {NoneArg} \cup {Given(m) : m \in 0..MaxMemGb}

\* the file names of the file-sets the planner is called on
PlanFileNames == {F_A1, F_A2, M_A, UVH5}

InitPlanner ==
    /\ phase = "start"
    /\ InitFiles
    /\ InitPlan
    /\ InitRead
    /\ disk \in Filesystems
    /\ host_mem \in HostMemories

PlanFileLists == SeqsUpTo(PlanFileNames, MaxFiles)

NextPlanner ==
    \/ /\ phase = "start"
       /\ \E fls \in PlanFileLists : Construct(fls, <<>>, <<>>)
    \/ \E size \in 0..MaxSizeGb, leak \in 1..MaxLeakage, mem \in Ceilings :
           ComputeOptimalBatches(size, leak, mem)
    \/ \E leak \in 1..MaxLeakage, mem \in Ceilings : OptimizeStepSize(leak, mem)

SpecPlanner == InitPlanner /\ [][NextPlanner]_vars

---------------------------------------------------------------------------
(* FITSProcessor.read and FITSProcessor._batched_read *)

\* what a read hands the reader as the metadata file
AsPath(p) == [is_stem |-> FALSE, path |-> p]
AsStem(p) == [is_stem |-> TRUE, path |-> [abs |-> FALSE, parts |-> <<PathStem(p)>>]]

ReadRaises(exc) ==
    /\ phase' = "read_raised"
    /\ read_exc' = exc

\* read's single-file path: _batched_read(uvd, metafits_files[0], fits_files,
\* step_size), the metadata file handed over as the Path it is
batched_read_args(fg) ==
    [obsid |-> <<>>, metafits |-> AsPath(Get(fg, <<"metafits">>)[1]),
     fits |-> Get(fg, <<"fits">>)]

\* observations() at its k-th step: file_group["metafits"][0].stem and
\* file_group["fits"] of the k-th obsid group, a plain dict, are yielded with
\* the obsid, or the lookup of a key the group does not have raises
observations(og, k) ==
    LET file_group == og.val[k]
    IN  IF ~HasKey(file_group, <<"metafits">>) \/ ~HasKey(file_group, <<"fits">>)
        THEN Raise("KeyError")
        ELSE Return([obsid |-> og.order[k],
                     metafits |-> AsStem(Get(file_group, <<"metafits">>)[1]),
                     fits |-> Get(file_group, <<"fits">>)])

\* an observation under accumulation, and the timestamps its files hold
WithTimes(obs, T) ==
    [obsid |-> obs.obsid, metafits |-> obs.metafits, fits |-> obs.fits, times |-> T]

\* read(uvd, file_set, step_size) up to the choice between the single-file
\* path and the loop over observations()
ReadCall(uvd, step) ==
    /\ phase = "constructed"
    /\ acc' = uvd
    /\ acc0' = uvd
    /\ step_arg' = step
    /\ UNCHANGED <<fileVars, envVars, possible_times, loop_i, discoveries, reads>>
    /\ IF ~has_type(file_groups, <<"fits">>) \/ ~has_type(file_groups, <<"metafits">>)
       THEN /\ ReadRaises("KeyError")
            /\ UNCHANGED <<planVars, step_size, obs_idx, cur>>
       ELSE LET fits_files     == Get(file_groups, <<"fits">>)
                planned == IF step.dynamic
                           THEN _optimize_step_size(get_size_mb(files, Filesystem(disk)),
                                                    DefaultLeakage, NoneArg, host_mem)
                           ELSE Return(step.n)
            IN  /\ IF step.dynamic
                   THEN /\ plan_call' = [fn |-> "_optimize_step_size",
                                         size_gb |-> get_size_mb(files, Filesystem(disk)) \div MbPerGb,
                                         leakage |-> DefaultLeakage, ceiling |-> NoneArg]
                        /\ plan_result' = planned
                   ELSE UNCHANGED planVars
                /\ IF planned.kind = "raise"
                   THEN /\ ReadRaises(planned.value)
                        /\ UNCHANGED <<step_size, obs_idx, cur>>
                   ELSE /\ step_size' = planned.value
                        /\ read_exc' = ""
                        /\ IF Len(fits_files) = 1
                           THEN /\ phase' = "batched_discover"
                                /\ cur' = WithTimes(batched_read_args(file_groups), {})
                                /\ UNCHANGED obs_idx
                           ELSE /\ phase' = "iter_next"
                                /\ obs_idx' = 1
                                /\ UNCHANGED cur

\* the metadata-only read a discovery pass issues, and the timestamps it found
DiscoveryOf(obs, found, with_kwargs) ==
    [obsid |-> obs.obsid, metafits |-> obs.metafits, fits |-> obs.fits,
     kwargs |-> with_kwargs, found |-> found]

\* the slice read issued at loop index k, after the pass-th discovery
SliceReadOf(obs, k, with_kwargs) ==
    [pass |-> Len(discoveries), obsid |-> obs.obsid, metafits |-> obs.metafits,
     fits |-> obs.fits, times |-> Slice(possible_times, k, k + step_size),
     kwargs |-> with_kwargs]

\* _batched_read and read, after uvd_.read(..., read_data=False):
\* possible_times = np.unique(uvd.time_array), uvd being the accumulator
discovered_times(uvd, found) == unique_times(uvd)

\* _batched_read: the metadata-only read, then possible_times
BatchedReadDiscover(found, ok) ==
    /\ phase = "batched_discover"
    /\ discoveries' = Append(discoveries, DiscoveryOf(cur, found, FALSE))
    /\ UNCHANGED <<fileVars, envVars, planVars, acc, acc0, step_arg, step_size,
                   obs_idx, reads>>
    /\ IF ok
       THEN /\ cur' = [cur EXCEPT !.times = found]
            /\ possible_times' = discovered_times(acc, found)
            /\ loop_i' = 0
            /\ phase' = "batched_slice"
            /\ UNCHANGED read_exc
       ELSE /\ found = {}
            /\ ReadRaises("ReaderError")
            /\ UNCHANGED <<cur, possible_times, loop_i>>

\* _batched_read: one turn of the loop, uvd += from_file(..., times=slice)
BatchedReadSlice(ok) ==
    /\ phase = "batched_slice"
    /\ loop_i < Len(possible_times)
    /\ reads' = Append(reads, SliceReadOf(cur, loop_i, FALSE))
    /\ UNCHANGED <<fileVars, envVars, planVars, acc0, step_arg, step_size, obs_idx,
                   cur, possible_times, discoveries>>
    /\ acc' = iadd_from_file(acc, ok, Slice(possible_times, loop_i, loop_i + step_size),
                             cur.times)
    /\ IF ok
       THEN /\ loop_i' = loop_i + step_size
            /\ UNCHANGED <<phase, read_exc>>
       ELSE /\ ReadRaises("ReaderError")
            /\ UNCHANGED loop_i

\* _batched_read: the loop is over, return uvd
BatchedReadReturn ==
    /\ phase = "batched_slice"
    /\ loop_i >= Len(possible_times)
    /\ phase' = "read_done"
    /\ UNCHANGED <<fileVars, envVars, planVars, readVars>>

\* read: observations() yields the next observation, then the metadata-only
\* read and possible_times
NextObservation(found, ok) ==
    /\ phase = "iter_next"
    /\ obs_idx <= Len(obsid_groups.order)
    /\ UNCHANGED <<fileVars, envVars, planVars, acc, acc0, step_arg, step_size,
                   obs_idx, reads>>
    /\ LET yielded == observations(obsid_groups, obs_idx)
       IN  IF yielded.kind = "raise"
           THEN /\ found = {} /\ ok
                /\ ReadRaises(yielded.value)
                /\ UNCHANGED <<cur, possible_times, loop_i, discoveries>>
           ELSE LET obs == WithTimes(yielded.value, found)
                IN  /\ discoveries' = Append(discoveries, DiscoveryOf(obs, found, TRUE))
                    /\ IF ok
                       THEN /\ cur' = obs
                            /\ possible_times' = discovered_times(acc, found)
                            /\ loop_i' = 0
                            /\ phase' = "iter_slice"
                            /\ UNCHANGED read_exc
                       ELSE /\ found = {}
                            /\ ReadRaises("ReaderError")
                            /\ UNCHANGED <<cur, possible_times, loop_i>>

\* read: one turn of the inner loop
ReadSlice(ok) ==
    /\ phase = "iter_slice"
    /\ loop_i < Len(possible_times)
    /\ reads' = Append(reads, SliceReadOf(cur, loop_i, TRUE))
    /\ UNCHANGED <<fileVars, envVars, planVars, acc0, step_arg, step_size, obs_idx,
                   cur, possible_times, discoveries>>
    /\ acc' = iadd_from_file(acc, ok, Slice(possible_times, loop_i, loop_i + step_size),
                             cur.times)
    /\ IF ok
       THEN /\ loop_i' = loop_i + step_size
            /\ UNCHANGED <<phase, read_exc>>
       ELSE /\ ReadRaises("ReaderError")
            /\ UNCHANGED loop_i

\* read: the inner loop is over, back to the generator
ObservationDone ==
    /\ phase = "iter_slice"
    /\ loop_i >= Len(possible_times)
    /\ phase' = "iter_next"
    /\ obs_idx' = obs_idx + 1
    /\ UNCHANGED <<fileVars, envVars, planVars, acc, acc0, step_arg, step_size, cur,
                   possible_times, loop_i, discoveries, reads, read_exc>>

\* read: observations() is exhausted, return uvd
ReadReturn ==
    /\ phase = "iter_next"
    /\ obs_idx > Len(obsid_groups.order)
    /\ phase' = "read_done"
    /\ UNCHANGED <<fileVars, envVars, planVars, readVars>>

\* the file lists read() is given file-sets of
ReadFileLists ==
    {<<M_A, F_A1>>, <<F_A2, M_A, F_A1>>, <<M_B, F_B1, F_A1, M_A>>,
     <<F_A1, F_A2, M_A, F_B1, M_B>>, <<F_A1, M_A, M_B>>, <<F_A1, F_A2, M_A, M_B>>,
     <<M_A>>, <<UVH5>>}

\* the accumulators read() is handed: a new UVData(), or one holding data
Accumulators == {EmptyAcc} \cup {AccOf(T) : T \in (SUBSET Times) \ {{}}}

StepArgs == {Dynamic} \cup {Step(n) : n \in 1..MaxStep}

InitReader ==
    /\ phase = "start"
    /\ InitFiles
    /\ InitPlan
    /\ InitRead
    /\ disk \in {"mid", "small"}
    /\ host_mem \in HostMemories

NextReader ==
    \/ \E fls \in ReadFileLists : Construct(fls, <<>>, <<>>)
    \/ \E uvd \in Accumulators, step \in StepArgs : ReadCall(uvd, step)
    \/ \E found \in SUBSET Times, ok \in BOOLEAN : BatchedReadDiscover(found, ok)
    \/ \E ok \in BOOLEAN : BatchedReadSlice(ok)
    \/ BatchedReadReturn
    \/ \E found \in SUBSET Times, ok \in BOOLEAN : NextObservation(found, ok)
    \/ \E ok \in BOOLEAN : ReadSlice(ok)
    \/ ObservationDone
    \/ ReadReturn

SpecReader == InitReader /\ [][NextReader]_vars

---------------------------------------------------------------------------
(* Properties of the file-set: classification and validation *)

\* validate() has run on the file list
Validated == phase \in {"constructed", "validation_errors"}

\* the type tags among the input file names
InputTags == {ExtOf(files[i]) : i \in 1..Len(files)}

Reported(msg) == msg \in Range(errors)

\* the paths held by the buckets of a dict of path lists
BucketPaths(d) == UNION {Range(d.val[i]) : i \in 1..Len(d.val)}

\* C4: a file list with a raw-data (fits) file and no metadata (metafits)
\* file makes validate() report the metadata requirement and construction
\* fail, so that no file-set is obtained.
C4_FitsWithoutMetafitsFails ==
    (Validated /\ <<"fits">> \in InputTags /\ <<"metafits">> \notin InputTags)
        => (Reported(MsgNeedMetafits) /\ phase = "validation_errors")

C4_Witness ==
    /\ phase = "validation_errors"
    /\ <<"fits">> \in InputTags
    /\ <<"metafits">> \notin InputTags
    /\ Reported(MsgNeedMetafits)

\* two different visibility-container families are among the input files
ContainerConflict ==
    LET legacy_uvfits == <<"uvfits">> \in InputTags \/ <<"uvf">> \in InputTags
        legacy_ms     == <<"ms">> \in InputTags
        modern        == <<"uvh5">> \in InputTags
    IN  \/ (legacy_uvfits \/ legacy_ms) /\ modern
        \/ legacy_ms /\ legacy_uvfits

\* C5: whenever two different visibility-container families are present
\* (uvfits or its alias uvf, ms, uvh5), validate() reports a
\* mutual-exclusion violation.
C5_ContainerFamiliesExclusive ==
    (Validated /\ ContainerConflict)
        => (Reported(MsgUvfitsUvh5) \/ Reported(MsgMsUvfitsUvh5))

\* observation groups exist and some observation has no metadata sub-group
SomeObsidWithoutMetafits ==
    /\ obsid_groups.set
    /\ \E i \in 1..Len(obsid_groups.val) : ~HasKey(obsid_groups.val[i], <<"metafits">>)

\* the messages of the six checks in check order, each check on its own
IndependentReport ==
    check_supported(file_groups)
    \o (IF has_type(file_groups, <<"fits">>) /\ ~has_type(file_groups, <<"metafits">>)
        THEN <<MsgNeedMetafits>> ELSE <<>>)
    \o (IF SomeObsidWithoutMetafits THEN <<MsgObsidMetafits>> ELSE <<>>)
    \o check_unsupported(file_groups)
    \o check_uvfits_uvh5(file_groups) \o check_ms(file_groups)
    \o check_ants(sel_ants, skip_ants)

\* C6: validate() runs its six checks independently: the report holds the
\* message of every check whose condition holds, in check order; in
\* particular the per-observation completeness violation is reported even
\* when the metadata requirement is reported too.
C6_ChecksIndependent ==
    Validated =>
        /\ SelectSeq(errors, LAMBDA m : m # MsgFailedFor) = IndependentReport
        /\ (SomeObsidWithoutMetafits => Reported(MsgObsidMetafits))

Classified == phase \in {"classified", "constructed", "validation_errors"}

\* C7: group_files_by_extension puts every input path into exactly one
\* bucket, the one tagged with the extension of its final name component
\* ('' when there is none), and the buckets together hold exactly the input
\* paths.
C7_EveryPathInOneBucket ==
    Classified =>
        /\ \A i \in 1..Len(files) :
               /\ HasKey(file_groups, ExtOf(files[i]))
               /\ \A k \in 1..Len(file_groups.order) :
                      (PathOf(files[i]) \in Range(file_groups.val[k]))
                          <=> (file_groups.order[k] = ExtOf(files[i]))
        /\ BucketPaths(file_groups) = {PathOf(files[i]) : i \in 1..Len(files)}
        /\ \A k \in 1..Len(file_groups.order) : file_groups.val[k] # <<>>

\* duplicates, a name without extension and several names under one tag
C7_Witness ==
    /\ phase = "classified"
    /\ \E i, j \in 1..Len(files) : i # j /\ files[i] = files[j]
    /\ \E i, j \in 1..Len(files) : files[i] # files[j] /\ ExtOf(files[i]) = ExtOf(files[j])
    /\ HasKey(file_groups, <<>>)

\* C8: with sel_ants and skip_ants both non-empty, validate() reports the
\* mutual exclusion of the selection options, whatever the files are.
C8_SelAndSkipExclusive ==
    (Validated /\ Len(sel_ants) > 0 /\ Len(skip_ants) > 0) => Reported(MsgSelSkip)

\* both lists given with a file list that is otherwise valid
C8_Witness ==
    /\ phase = "validation_errors"
    /\ Len(sel_ants) > 0 /\ Len(skip_ants) > 0
    /\ errors = <<MsgSelSkip, MsgFailedFor>>

---------------------------------------------------------------------------
(* Properties of the planners *)

\* a planner was called with a positive size, leakage factor and ceiling
PlannedOnPositives ==
    /\ phase = "planned"
    /\ plan_call.size_gb > 0
    /\ plan_call.leakage > 0
    /\ plan_call.ceiling.some
    /\ plan_call.ceiling.v > 0

PredictedPeak == plan_call.size_gb * plan_call.leakage

CeilDiv(a, b) == (a + b - 1) \div b

\* C2 as stated: 1 under the ceiling, else ceil(peak / ceiling) * 2, for
\* both planners.
C2_CeilTimesTwo ==
    PlannedOnPositives =>
        plan_result = Return(IF PredictedPeak < plan_call.ceiling.v THEN 1
                             ELSE CeilDiv(PredictedPeak, plan_call.ceiling.v) * 2)

\* C2 (amended): both planners return 1 when size * leakage is under the
\* ceiling and otherwise floor(size * leakage / ceiling) * 2.
C2_FloorTimesTwo ==
    PlannedOnPositives =>
        plan_result = Return(IF PredictedPeak < plan_call.ceiling.v THEN 1
                             ELSE (PredictedPeak \div plan_call.ceiling.v) * 2)

\* a peak of 35 GB against a ceiling of 10 GB: floor gives 6, ceil would give 8
C2_Witness ==
    /\ PlannedOnPositives
    /\ plan_call.fn = "_optimize_step_size"
    /\ plan_call.size_gb = 5 /\ plan_call.leakage = 7 /\ plan_call.ceiling.v = 10
    /\ plan_result = Return(6)

---------------------------------------------------------------------------
(* Properties of the read *)

\* the slice reads issued after the k-th discovery pass
ReadsOfPass(k) == SelectSeq(reads, LAMBDA r : r.pass = k)

RECURSIVE ConcatTimes(_)
\* the timestamps of a sequence of slice reads, in the order read
ConcatTimes(rs) == IF Len(rs) = 0 THEN <<>> ELSE rs[1].times \o ConcatTimes(Tail(rs))

\* the slices [0:s], [s:2s], ... of the sorted timestamps found
SlicesOf(found, s) ==
    LET sorted == SortedTimes(found)
    IN  [k \in 1..CeilDiv(Len(sorted), s) |-> Slice(sorted, (k - 1) * s, k * s)]

\* _batched_read has returned from a call with an explicit step size on a
\* new accumulator
BatchedReadDoneOnEmpty ==
    /\ phase = "read_done"
    /\ obs_idx = 0
    /\ ~step_arg.dynamic
    /\ ~acc0.has_data
    /\ discoveries[1].found # {}

\* C1: accumulating an observation of n timestamps into an empty accumulator
\* with step size s issues exactly ceil(n/s) slice reads, the consecutive
\* slices of the sorted discovered timestamps, and the accumulator's axis is
\* then the discovered timestamps.
C1_SlicesPartitionDiscovered ==
    BatchedReadDoneOnEmpty =>
        /\ Len(reads) = CeilDiv(Cardinality(discoveries[1].found), step_size)
        /\ [k \in 1..Len(reads) |-> reads[k].times]
               = SlicesOf(discoveries[1].found, step_size)
        /\ acc.times = discoveries[1].found

\* C3: with automatic step sizing and a planner result of 1, each
\* observation's discovered timestamps are read in one slice read.
C3_OneBatchReadsAllAtOnce ==
    (phase = "read_done" /\ step_arg.dynamic /\ plan_result = Return(1)) =>
        \A k \in 1..Len(discoveries) :
            discoveries[k].found # {} =>
                /\ Len(ReadsOfPass(k)) = 1
                /\ ReadsOfPass(k)[1].times = SortedTimes(discoveries[k].found)

\* C9: an observation whose discovery pass finds no timestamp causes no
\* slice read and leaves the accumulator as it was.
C9_EmptyObservationIsNoOp ==
    /\ \A k \in 1..Len(reads) : discoveries[reads[k].pass].found # {}
    /\ (\A k \in 1..Len(discoveries) : discoveries[k].found = {}) => acc = acc0

\* C10: after read() over several observations the accumulator holds what
\* it held before and every observation's discovered timestamps, each
\* observation's slice reads being the slices of its own discovery.
C10_AxisIsUnionOfDiscovered ==
    (phase = "read_done" /\ obs_idx > 0 /\ Len(discoveries) >= 2) =>
        /\ acc.times = acc0.times \cup UNION {discoveries[k].found : k \in 1..Len(discoveries)}
        /\ \A k \in 1..Len(discoveries) :
               ConcatTimes(ReadsOfPass(k)) = SortedTimes(discoveries[k].found)

---------------------------------------------------------------------------
(* Properties of the size precondition *)

\* an entry of the filesystem holds at least one byte
NonZeroOnDisk(entry) ==
    \E k \in 1..Len(entry.sizes) : entry.sizes[k].mib > 0 \/ entry.sizes[k].rem > 0

\* the files of the file-set hold at least one byte between them
TotalSizePositive ==
    \E k \in 1..Len(files) : NonZeroOnDisk(Filesystem(disk)[files[k]])

\* every file of the file-set holds at least one byte
EveryFileNonZero ==
    \A k \in 1..Len(files) : NonZeroOnDisk(Filesystem(disk)[files[k]])

\* C11: _optimize_step_size raises its AssertionError exactly when the
\* file-set's size on disk is not greater than zero, and a read with
\* step_size='dynamic' over files that are all non-empty obtains a step size.
C11_PreconditionOnlyOnZeroSize ==
    plan_call.fn = "_optimize_step_size" =>
        /\ (plan_result = Raise("AssertionError")) <=> ~TotalSizePositive
        /\ (step_arg.dynamic /\ EveryFileNonZero) =>
               /\ plan_result.kind = "return"
               /\ phase # "read_raised" \/ read_exc # "AssertionError"

---------------------------------------------------------------------------
(* Properties of the memory ceiling *)

\* the ceiling the sizing probe gives on this host, passed explicitly
ProbedCeiling == Given(_obtain_system_memory_in_gb(host_mem))

\* C12: called without a memory ceiling, compute_optimal_batches and
\* _optimize_step_size each return what they return when the host's total
\* memory in GB is passed as the ceiling; leaving the ceiling out raises
\* nothing of its own.
C12_NoCeilingMeansProbe ==
    (phase = "planned" /\ ~plan_call.ceiling.some) =>
        plan_result =
            IF plan_call.fn = "compute_optimal_batches"
            THEN compute_optimal_batches(plan_call.size_gb, plan_call.leakage, ProbedCeiling)
            ELSE _optimize_step_size(get_size_mb(files, Filesystem(disk)),
                                     plan_call.leakage, ProbedCeiling, host_mem)

---------------------------------------------------------------------------
(* Properties of the two paths of read *)

\* the file-set is one observation: one obsid group, one metadata file
SingleObservation ==
    /\ phase \notin {"start", "no_input_files", "validation_errors"}
    /\ obsid_groups.set
    /\ Len(obsid_groups.order) = 1
    /\ has_type(file_groups, <<"metafits">>)
    /\ Len(Get(file_groups, <<"metafits">>)) = 1

\* read has gone down the single-file path, or into the loop over observations()
FastPathTaken ==
    /\ obs_idx = 0
    /\ phase \in {"batched_discover", "batched_slice"} \/ Len(discoveries) > 0

IterationTaken == obs_idx > 0

\* the files and options of a logged discovery or slice read
RequestOf(r) == [metafits |-> r.metafits, fits |-> r.fits, kwargs |-> r.kwargs]

\* what _batched_read asks the reader for: no keyword options
FastPathRequest ==
    LET a == batched_read_args(file_groups)
    IN  [metafits |-> a.metafits, fits |-> a.fits, kwargs |-> FALSE]

\* what the loop of read asks for: **file_set.kwargs_for_read
IterationRequest ==
    LET o == observations(obsid_groups, 1).value
    IN  [metafits |-> o.metafits, fits |-> o.fits, kwargs |-> TRUE]

RECURSIVE Accumulated(_, _, _, _)
\* uvd after the slices of possible, s at a time, are read and merged in order
Accumulated(uvd, possible, s, obs_times) ==
    IF Len(possible) = 0 THEN uvd
    ELSE Accumulated(merge(uvd, fragment(Slice(possible, 0, s), obs_times)),
                     Slice(possible, s, Len(possible)), s, obs_times)

\* C13: read takes the single-file path exactly when the file-set is a
\* single observation, and on such a file-set either path issues the
\* discovery read and the slice reads the other one issues (metadata file,
\* raw-data files, options) and ends with the same accumulator.
C13_FastPathEqualsIteration ==
    /\ FastPathTaken => SingleObservation
    /\ IterationTaken => ~SingleObservation
    /\ SingleObservation =>
           /\ \A k \in 1..Len(discoveries) :
                  /\ RequestOf(discoveries[k]) = FastPathRequest
                  /\ RequestOf(discoveries[k]) = IterationRequest
           /\ \A k \in 1..Len(reads) :
                  /\ RequestOf(reads[k]) = FastPathRequest
                  /\ RequestOf(reads[k]) = IterationRequest
           /\ phase = "read_done" =>
                  acc = Accumulated(acc0, unique_times(acc0), step_size,
                                    discoveries[1].found)

---------------------------------------------------------------------------
(* Properties of observations() *)

\* a file-set with raw-data files has been constructed
ConstructedWithFits ==
    /\ phase \notin {"start", "no_input_files", "validation_errors"}
    /\ has_type(file_groups, <<"fits">>)

\* the observation identifiers of the raw-data files
FitsObsids ==
    {ObsidOf(files[k]) : k \in {j \in 1..Len(files) : ExtOf(files[j]) = <<"fits">>}}

\* the steps at which observations() yields the observation o
YieldsOf(o) ==
    {k \in 1..Len(obsid_groups.order) :
        /\ observations(obsid_groups, k).kind = "return"
        /\ observations(obsid_groups, k).value.obsid = o}

\* C14: on a constructed file-set with raw-data files observations() raises
\* at no step and yields one triple for each observation identifier of the
\* raw-data files and none for any other identifier, so that the loop of
\* read never ends in a KeyError.
C14_OneObservationPerFitsObsid ==
    ConstructedWithFits =>
        /\ \A k \in 1..Len(obsid_groups.order) :
               observations(obsid_groups, k).kind = "return"
        /\ \A o \in FitsObsids : Cardinality(YieldsOf(o)) = 1
        /\ \A o \in Range(obsid_groups.order) \ FitsObsids : YieldsOf(o) = {}
        /\ IterationTaken => read_exc # "KeyError"

---------------------------------------------------------------------------
(* Properties of a slice read that fails *)

\* read has ended in the exception of a slice read: the last read logged
\* belongs to the last discovery pass
SliceReadFailed ==
    /\ phase = "read_raised"
    /\ read_exc = "ReaderError"
    /\ Len(reads) > 0
    /\ reads[Len(reads)].pass = Len(discoveries)

\* the timestamps the slice reads before the last one returned
ReturnedBeforeLast ==
    UNION {Range(reads[j].times) \cap discoveries[reads[j].pass].found :
               j \in 1..(Len(reads) - 1)}

\* the slice reads of the last pass are the slices of possible_times in
\* order, each asked for once, the last of them at loop index loop_i
EachSliceReadOnce ==
    LET rs == ReadsOfPass(Len(discoveries))
    IN  /\ loop_i = (Len(rs) - 1) * step_size
        /\ \A j \in 1..Len(rs) :
               rs[j].times = Slice(possible_times, (j - 1) * step_size, j * step_size)

\* C15: when a slice read raises, read ends there: the slice is not asked
\* for again, no further slice is read, and the accumulator holds what it
\* held at the call merged with what the slice reads before the failed one
\* returned, the failed one adding nothing and nothing merged being lost.
C15_SliceFailureKeepsLastMerge ==
    /\ [](SliceReadFailed =>
              /\ EachSliceReadOnce
              /\ acc.times = acc0.times \cup ReturnedBeforeLast
              /\ acc.has_data = (acc0.has_data \/ ReturnedBeforeLast # {}))
    /\ [][SliceReadFailed => UNCHANGED <<acc, reads, discoveries, phase>>]_vars

\* the second slice read of a pass raised after the first was merged into
\* an accumulator that held data
C15_Witness ==
    /\ SliceReadFailed
    /\ acc0.has_data
    /\ Len(ReadsOfPass(Len(discoveries))) >= 2
    /\ ReturnedBeforeLast # {}

====
